---- MODULE Spec2Model ----
(***************************************************************************)
(* Model of the step failure processor (src/script.py): main's loop over   *)
(* the attachments of failed steps, the idempotency lookup, download,      *)
(* archive extraction, log selection, record assembly and the per          *)
(* attachment database transaction; the archive extractors and the error   *)
(* context extractor as step machines of their own.                        *)
(*                                                                         *)
(* Text is a sequence of one-character strings.  A path is the sequence of *)
(* its components, i.e. the string split at "/" (so an absolute path has   *)
(* an empty first component); joining the components with "/" gives the    *)
(* string back, so the two forms carry the same information.               *)
(***************************************************************************)
EXTENDS Integers, Sequences, FiniteSets, Bags, TLC

(***************************************************************************)
(* Text helpers (Python str methods and the character classes of re).      *)
(***************************************************************************)
UpperAlpha ==
    <<"A", "B", "C", "D", "E", "F", "G", "H", "I", "J", "K", "L", "M",
      "N", "O", "P", "Q", "R", "S", "T", "U", "V", "W", "X", "Y", "Z">>

LowerAlpha ==
    <<"a", "b", "c", "d", "e", "f", "g", "h", "i", "j", "k", "l", "m",
      "n", "o", "p", "q", "r", "s", "t", "u", "v", "w", "x", "y", "z">>

Digits ==
    {"0", "1", "2", "3", "4", "5", "6", "7", "8", "9"}

Range(s) ==
    {s[k] : k \in DOMAIN s}

\* str.lower() on one character
LowerChar(c) ==
    IF \E k \in DOMAIN UpperAlpha : UpperAlpha[k] = c
    THEN LowerAlpha[CHOOSE k \in DOMAIN UpperAlpha : UpperAlpha[k] = c]
    ELSE c

\* str.lower()
Lower(s) ==
    [k \in DOMAIN s |-> LowerChar(s[k])]

\* str.startswith(pre)
StartsWith(s, pre) ==
    /\ Len(pre) <= Len(s)
    /\ \A k \in DOMAIN pre : s[k] = pre[k]

\* str.endswith(suf)
EndsWith(s, suf) ==
    /\ Len(suf) <= Len(s)
    /\ \A k \in DOMAIN suf : s[Len(s) - Len(suf) + k] = suf[k]

\* sub occurs in s at offset p (0-based)
OccursAt(s, sub, p) ==
    /\ p + Len(sub) <= Len(s)
    /\ \A k \in DOMAIN sub : s[p + k] = sub[k]

\* the Python test  sub in s
Contains(s, sub) ==
    \E p \in 0..Len(s) : OccursAt(s, sub, p)

\* the class \w of re (ASCII part)
IsWordChar(c) ==
    \/ c \in Range(UpperAlpha)
    \/ c \in Range(LowerAlpha)
    \/ c \in Digits
    \/ c = "_"

\* the class [A-Za-z0-9] of re
IsAlnum(c) ==
    \/ c \in Range(UpperAlpha)
    \/ c \in Range(LowerAlpha)
    \/ c \in Digits

\* s[a:b] of Python (0-based, half open), for 0 <= a <= b <= Len(s)
Slice(s, a, b) ==
    [k \in 1..(b - a) |-> s[a + k]]

(***************************************************************************)
(* sanitize_filename and the path helpers of os.path used by the script.   *)
(* A file name here is text that holds no "/": os.path.basename has been   *)
(* applied by taking the last component of the path.                       *)
(***************************************************************************)
UnknownFile ==
    <<"u", "n", "k", "n", "o", "w", "n", "_", "f", "i", "l", "e">>

\* re.sub(r'[^\w\.-]', '_', filename)
ReplaceUnsafe(s) ==
    [k \in DOMAIN s |->
        IF IsWordChar(s[k]) \/ s[k] = "." \/ s[k] = "-" THEN s[k] ELSE "_"]

\* number of leading characters of s that are "." or "-"
LeadingDots(s) ==
    IF \E k \in DOMAIN s : s[k] \notin {".", "-"}
    THEN (CHOOSE k \in DOMAIN s :
            /\ s[k] \notin {".", "-"}
            /\ \A j \in 1..(k - 1) : s[j] \in {".", "-"}) - 1
    ELSE Len(s)

\* re.sub(r'^[.-]+', '', filename)
StripLeadingDots(s) ==
    Slice(s, LeadingDots(s), Len(s))

\* sanitize_filename(filename), filename given as its path components
sanitize_filename(path) ==
    LET base == path[Len(path)]
        clean == StripLeadingDots(ReplaceUnsafe(base))
    IN  IF clean = <<>> THEN UnknownFile ELSE clean

\* os.path.splitext(name)[0]: cut at the last dot, unless only dots precede it
SplitextRoot(name) ==
    LET dots == {k \in DOMAIN name : name[k] = "."}
        last == CHOOSE k \in dots : \A j \in dots : j <= k
    IN  IF dots = {} THEN name
        ELSE IF \A j \in 1..(last - 1) : name[j] = "." THEN name
        ELSE Slice(name, 0, last - 1)

(***************************************************************************)
(* The file system under the temporary directory.  An entry is a file, a   *)
(* directory or a symbolic link at an absolute path; origin names the      *)
(* attachment whose processing created it.                                 *)
(***************************************************************************)
\* the directory tempfile.mkdtemp returns, "/t"
TmpDir ==
    <<<<>>, <<"t">>>>

\* a place outside the temporary directory, "/o"
OutsideDir ==
    <<<<>>, <<"o">>>>

\* MAX_ATTACHMENT_SIZE (read from the environment; sizes are in units of it / 2)
MAX_ATTACHMENT_SIZE ==
    2

\* os.path.isabs(name), name given as components
IsAbs(name) ==
    Len(name) >= 2 /\ name[1] = <<>>

\* the Python test  '..' in name  (a substring test on the whole string)
HasDotDot(name) ==
    \E k \in DOMAIN name : Contains(name[k], <<".", ".">>)

\* name holds a parent-directory segment: a component that is exactly ".."
HasTraversalSegment(name) ==
    \E k \in DOMAIN name : name[k] = <<".", ".">>

\* p lies in the tree rooted at dir
Within(p, dir) ==
    /\ Len(p) >= Len(dir)
    /\ SubSeq(p, 1, Len(dir)) = dir

RECURSIVE NormFrom(_, _)
\* os.path.normpath on an absolute path: drop "" and ".", apply ".."
NormFrom(rest, acc) ==
    IF rest = <<>> THEN acc
    ELSE LET c == Head(rest)
         IN  IF c = <<>> \/ c = <<".">> THEN NormFrom(Tail(rest), acc)
             ELSE IF c = <<".", ".">>
                  THEN NormFrom(Tail(rest),
                                IF Len(acc) > 1 THEN SubSeq(acc, 1, Len(acc) - 1) ELSE acc)
                  ELSE NormFrom(Tail(rest), Append(acc, c))

Normalize(p) ==
    NormFrom(p, <<<<>>>>)

\* the symbolic links of fs
Links(fs) ==
    {e \in fs : e.type = "symlink"}

\* where a link at path q with target t points
LinkTarget(q, t) ==
    IF IsAbs(t) THEN Normalize(t)
    ELSE Normalize(SubSeq(q, 1, Len(q) - 1) \o t)

\* how many links a resolution follows before giving up (ELOOP)
MaxLinkDepth ==
    3

RECURSIVE ResolveN(_, _, _)
\* os.path.realpath: follow the first symbolic link on the way, and again
ResolveN(fs, p, fuel) ==
    LET hit == {n \in 2..Len(p) :
                  \E e \in Links(fs) : e.path = SubSeq(p, 1, n)}
    IN  IF hit = {} \/ fuel = 0 THEN p
        ELSE LET n == CHOOSE n \in hit : \A j \in hit : n <= j
                 e == CHOOSE e \in Links(fs) : e.path = SubSeq(p, 1, n)
             IN  ResolveN(fs,
                          LinkTarget(e.path, e.target) \o SubSeq(p, n + 1, Len(p)),
                          fuel - 1)

Resolve(fs, p) ==
    ResolveN(fs, p, MaxLinkDepth)

\* os.path.exists(p): something is there after following links
Exists(fs, p) ==
    \E e \in fs : e.path = Resolve(fs, p) /\ e.type # "symlink"

\* writing an entry replaces what was at its path
PutEntry(fs, e) ==
    {x \in fs : x.path # e.path} \cup {e}

\* p is a directory: something lies below it; open(p, 'wb') raises then
IsDirectory(fs, p) ==
    \E e \in fs : Within(e.path, p) /\ Len(e.path) > Len(p)

(***************************************************************************)
(* Archive members and the two extractors.  A member is                    *)
(*   [name, size, type, linkname, lines]: the declared path (components),  *)
(* the declared size, "file" or "symlink", the link's target, and the      *)
(* file's lines.  zipfile                                                  *)
(* writes every member as a regular file; tarfile creates the links.       *)
(* tarfile's extraction filter is not chosen by the script, so it is the   *)
(* interpreter's default: "fully_trusted" up to Python 3.13, "data" from   *)
(* 3.14 on.                                                                *)
(***************************************************************************)
TarFilters ==
    {"fully_trusted", "data"}

\* the test both extractors make before extracting a member
IsSkipped(m) ==
    \/ IsAbs(m.name) \/ HasDotDot(m.name)
    \/ m.size > MAX_ATTACHMENT_SIZE

FileEntry(p, m, origin) ==
    [path |-> p, type |-> "file", target |-> <<>>, name |-> m.name, origin |-> origin,
     lines |-> m.lines]

LinkEntry(p, m, origin) ==
    [path |-> p, type |-> "symlink", target |-> m.linkname, name |-> m.name,
     origin |-> origin, lines |-> <<>>]

\* tarfile.data_filter refuses the member (raises a FilterError)
DataFilterRefuses(fs, dest, m) ==
    LET at == Normalize(dest \o m.name)
    IN  \/ ~Within(Resolve(fs, at), dest)
        \/ /\ m.type = "symlink"
           /\ \/ IsAbs(m.linkname)
              \/ ~Within(Resolve(fs, LinkTarget(at, m.linkname)), dest)

\* tar.extract(member, extract_path): [fs, outcome]
tar_extract(filter, fs, dest, m, origin) ==
    LET at == Normalize(dest \o m.name)
        parent == Resolve(fs, SubSeq(at, 1, Len(at) - 1))
    IN  IF filter = "data" /\ DataFilterRefuses(fs, dest, m)
        THEN [fs |-> fs, outcome |-> "error"]
        ELSE IF m.type = "symlink"
        THEN [fs |-> PutEntry(fs, LinkEntry(Append(parent, at[Len(at)]), m, origin)),
              outcome |-> "extracted"]
        ELSE [fs |-> PutEntry(fs, FileEntry(Resolve(fs, at), m, origin)),
              outcome |-> "extracted"]

\* zipfile's own cleaning of a member name: "", "." and ".." components go
ZipArcname(name) ==
    SelectSeq(name, LAMBDA c : c # <<>> /\ c # <<".">> /\ c # <<".", ".">>)

\* zip_ref.extract(member, extract_path): [fs, outcome]
zip_extract(fs, dest, m, origin) ==
    LET arc == ZipArcname(m.name)
    IN  IF arc = <<>>
        THEN [fs |-> fs, outcome |-> "error"]
        ELSE IF m.name[Len(m.name)] = <<>>
        THEN [fs |-> fs, outcome |-> "extracted"]
        ELSE [fs |-> PutEntry(fs, FileEntry(Resolve(fs, dest \o arc), m, origin)),
              outcome |-> "extracted"]

\* one turn of the loop of _safe_extract_tar / _safe_extract_zip
safe_extract_member(kind, filter, fs, dest, m, origin) ==
    IF IsSkipped(m)
    THEN [fs |-> fs, outcome |-> "skipped"]
    ELSE IF kind = "zip"
    THEN zip_extract(fs, dest, m, origin)
    ELSE tar_extract(filter, fs, dest, m, origin)

RECURSIVE safe_extract(_, _, _, _, _, _)
\* _safe_extract_tar / _safe_extract_zip: the whole loop, [fs, ok]
safe_extract(kind, filter, fs, dest, members, origin) ==
    IF members = <<>> THEN [fs |-> fs, ok |-> TRUE]
    ELSE LET r == safe_extract_member(kind, filter, fs, dest, Head(members), origin)
         IN  IF r.outcome = "error" THEN [fs |-> r.fs, ok |-> FALSE]
             ELSE safe_extract(kind, filter, r.fs, dest, Tail(members), origin)

(***************************************************************************)
(* extract_archive: the archive type from the file name, the directory the *)
(* members go to.  The suffix tests are made on the whole lowercased path; *)
(* every suffix starts with "." and holds no "/", so the test on the last  *)
(* component decides it.                                                   *)
(***************************************************************************)
SufTarGz ==
    <<".", "t", "a", "r", ".", "g", "z">>

SufTgz ==
    <<".", "t", "g", "z">>

SufZip ==
    <<".", "z", "i", "p">>

SufTar ==
    <<".", "t", "a", "r">>

\* a variant that takes every other name for a plain tar archive
ArchiveKindAnyTar(file_path) ==
    LET file_lower == Lower(file_path[Len(file_path)])
    IN  IF EndsWith(file_lower, SufTarGz) \/ EndsWith(file_lower, SufTgz) THEN "targz"
        ELSE IF EndsWith(file_lower, SufZip) THEN "zip"
        ELSE "tar"

\* the branch extract_archive takes for file_path: "targz", "zip", "tar" or "unsupported"
ArchiveKind(file_path) ==
    LET file_lower == Lower(file_path[Len(file_path)])
    IN  IF EndsWith(file_lower, SufTarGz) \/ EndsWith(file_lower, SufTgz) THEN "targz"
        ELSE IF EndsWith(file_lower, SufZip) THEN "zip"
        ELSE IF EndsWith(file_lower, SufTar) THEN "tar"
        ELSE "unsupported"

\* base_name of extract_archive
ExtractBaseName(file_path) ==
    LET base_name == sanitize_filename(<<SplitextRoot(file_path[Len(file_path)])>>)
    IN  IF EndsWith(base_name, SufTar) THEN SplitextRoot(base_name) ELSE base_name

\* extract_path of extract_archive
ExtractPath(file_path, extract_dir) ==
    Append(extract_dir, ExtractBaseName(file_path))

\* extract_archive(file_path, extract_dir) on an archive holding members:
\* [fs, path], path = <<>> standing for None
extract_archive(filter, fs, file_path, extract_dir, members, corrupt, origin) ==
    LET extract_path == ExtractPath(file_path, extract_dir)
        kind == ArchiveKind(file_path)
        r == safe_extract(IF kind = "zip" THEN "zip" ELSE "tar", filter, fs,
                          extract_path, members, origin)
    IN  IF kind = "unsupported" \/ corrupt THEN [fs |-> fs, path |-> <<>>]
        ELSE IF r.ok THEN [fs |-> r.fs, path |-> extract_path]
        ELSE [fs |-> r.fs, path |-> <<>>]

(***************************************************************************)
(* find_log_files: os.walk over the directory, every file whose lowercased *)
(* name ends with ".log" and starts with the lowercased step name.         *)
(***************************************************************************)
SufLog ==
    <<".", "l", "o", "g">>

\* a variant of the test that compares the names as they are written
IsStepLogSameCase(file, step_name) ==
    EndsWith(file, SufLog) /\ StartsWith(file, step_name)

\* the test find_log_files makes on one file name
IsStepLog(file, step_name) ==
    LET file_lower == Lower(file)
    IN  EndsWith(file_lower, SufLog) /\ StartsWith(file_lower, Lower(step_name))

\* the non-directory entries os.walk(directory) reports (links are not followed)
Walk(fs, directory) ==
    {e \in fs : Within(e.path, directory) /\ Len(e.path) > Len(directory)}

RECURSIVE FindLogList(_, _, _)
\* the loop of find_log_files over the entries os.walk still has to report, taken
\* in some order: log_files gets the path of every entry that passes the test
FindLogList(entries, step_name, log_files) ==
    IF entries = {} THEN log_files
    ELSE LET x == CHOOSE e \in entries : TRUE
         IN  FindLogList(entries \ {x}, step_name,
                         IF IsStepLog(x.path[Len(x.path)], step_name)
                         THEN Append(log_files, x.path) ELSE log_files)

\* find_log_files(directory, step_name): the paths found
find_log_files(fs, directory, step_name) ==
    Range(FindLogList(Walk(fs, directory), step_name, <<>>))

(***************************************************************************)
(* extract_error_context.  The patterns are compiled with re.IGNORECASE,   *)
(* so they are written in lower case and matched against the lowercased    *)
(* line.  Line indices are 0-based, as in the script; a range is           *)
(* <<start, end>>, half open.                                              *)
(***************************************************************************)
\* the patterns written with \b...\b: ERROR, FATAL, FAILED
WordPatterns ==
    {<<"e", "r", "r", "o", "r">>,
     <<"f", "a", "t", "a", "l">>,
     <<"f", "a", "i", "l", "e", "d">>}

\* the patterns matched anywhere in the line
PlainPatterns ==
    {<<"[", "e", "r", "r", "o", "r", "]">>,
     <<"r", "e", "f", "u", "s", "i", "n", "g", " ", "t", "o", " ",
       "e", "x", "e", "c", "u", "t", "e">>,
     <<"u", "n", "a", "b", "l", "e", " ", "t", "o", " ", "g", "e", "t">>,
     <<"u", "n", "a", "b", "l", "e", " ", "t", "o", " ",
       "r", "e", "t", "r", "i", "e", "v", "e">>,
     <<"u", "n", "a", "b", "l", "e", " ", "t", "o", " ", "s", "t", "a", "r", "t">>,
     <<"c", "o", "n", "n", "e", "c", "t", "i", "o", "n", " ",
       "e", "r", "r", "o", "r">>,
     <<"m", "a", "x", "i", "m", "u", "m", " ", "r", "e", "t", "r", "i", "e", "s", " ",
       "r", "e", "a", "c", "h", "e", "d">>,
     <<"o", "r", "a", "c", "l", "e", " ", "n", "o", "t", " ",
       "a", "v", "a", "i", "l", "a", "b", "l", "e">>}

\* re.search(r'\bW\b', line): W between two word boundaries (W is made of word characters)
SearchWord(line, w) ==
    \E p \in 0..Len(line) :
        /\ OccursAt(line, w, p)
        /\ p = 0 \/ ~IsWordChar(line[p])
        /\ p + Len(w) = Len(line) \/ ~IsWordChar(line[p + Len(w) + 1])

\* some compiled pattern matches the line
IsErrorLine(line) ==
    LET low == Lower(line)
    IN  \/ \E w \in WordPatterns : SearchWord(low, w)
        \/ \E q \in PlainPatterns : Contains(low, q)

\* the lines the input files are made of: one an error pattern matches, one none matches
LineErr ==
    <<"[", "E", "r", "r", "o", "r", "]", " ", "x">>

LineOk ==
    <<"e", "r", "r", "o", "r", "s">>

LineCat ==
    {LineErr, LineOk}

\* the separator extract_error_context puts between two ranges
Separator ==
    <<"-", "-", "-", " ", "E", "R", "R", "O", "R", " ", "C", "O", "N", "T", "E", "X", "T",
      " ", "S", "E", "P", "A", "R", "A", "T", "O", "R", " ", "-", "-", "-">>

\* the lines that occur in the input files
KnownLines ==
    LineCat \cup {Separator}

\* IsErrorLine on the lines of KnownLines, worked out once
ErrorLineTable ==
    [l \in KnownLines |-> IsErrorLine(l)]

\* the inner loop of lines 331-335: does any pattern match the line
MatchesAnyPattern(line) ==
    IF line \in KnownLines THEN ErrorLineTable[line] ELSE IsErrorLine(line)

Max(a, b) ==
    IF a >= b THEN a ELSE b

Min(a, b) ==
    IF a <= b THEN a ELSE b

\* error_indices
ErrorIndices(lines) ==
    {i \in 0..(Len(lines) - 1) : MatchesAnyPattern(lines[i + 1])}

RECURSIVE SortedSeq(_)
\* sorted(S) for a finite set of integers
SortedSeq(S) ==
    IF S = {} THEN <<>>
    ELSE LET m == CHOOSE x \in S : \A y \in S : x <= y
         IN  <<m>> \o SortedSeq(S \ {m})

\* a variant of the range that stops at the last context line's index
ContextRangeShort(n, error_idx, context_lines) ==
    <<Max(0, error_idx - context_lines), Min(n, error_idx + context_lines)>>

\* the range built for one error index
ContextRange(n, error_idx, context_lines) ==
    <<Max(0, error_idx - context_lines), Min(n, error_idx + context_lines + 1)>>

\* ranges: one per error index, in ascending order of the index
ContextRanges(lines, context_lines) ==
    LET idx == SortedSeq(ErrorIndices(lines))
    IN  [k \in DOMAIN idx |-> ContextRange(Len(lines), idx[k], context_lines)]

\* a variant of the test that joins overlapping ranges only
JoinsOverlapOnly(start, last) ==
    start < last[2]

\* the test of the merge loop: the range joins the last merged one
Joins(start, last) ==
    start <= last[2]

\* one turn of the merge loop
MergeStep(merged_ranges, rg) ==
    IF merged_ranges # <<>> /\ Joins(rg[1], merged_ranges[Len(merged_ranges)])
    THEN [merged_ranges EXCEPT ![Len(merged_ranges)] =
             <<merged_ranges[Len(merged_ranges)][1],
               Max(merged_ranges[Len(merged_ranges)][2], rg[2])>>]
    ELSE Append(merged_ranges, rg)

RECURSIVE MergeFrom(_, _)
MergeFrom(ranges, merged_ranges) ==
    IF ranges = <<>> THEN merged_ranges
    ELSE MergeFrom(Tail(ranges), MergeStep(merged_ranges, Head(ranges)))

\* merged_ranges
MergeRanges(ranges) ==
    MergeFrom(ranges, <<>>)

RECURSIVE EmitSepAlways(_, _, _)
\* a variant of the last loop that puts a separator before every range
EmitSepAlways(lines, merged_ranges, context_lines_list) ==
    IF merged_ranges = <<>> THEN context_lines_list
    ELSE LET rg == Head(merged_ranges)
         IN  EmitSepAlways(lines, Tail(merged_ranges),
                           context_lines_list \o <<Separator>> \o Slice(lines, rg[1], rg[2]))

RECURSIVE EmitFrom(_, _, _)
\* the last loop: the lines of each merged range, a separator before all but the first
EmitFrom(lines, merged_ranges, context_lines_list) ==
    IF merged_ranges = <<>> THEN context_lines_list
    ELSE LET rg == Head(merged_ranges)
             sep == IF context_lines_list # <<>> THEN <<Separator>> ELSE <<>>
         IN  EmitFrom(lines, Tail(merged_ranges),
                      context_lines_list \o sep \o Slice(lines, rg[1], rg[2]))

\* extract_error_context(lines, context_lines)
extract_error_context(lines, context_lines) ==
    LET ranges == ContextRanges(lines, context_lines)
    IN  IF ranges = <<>> THEN <<>>
        ELSE EmitFrom(lines, MergeRanges(ranges), <<>>)

(***************************************************************************)
(* extract_metadata_from_log: the record assembled from one log file.  A   *)
(* file's text is held as the sequence of its lines (what readlines gives, *)
(* line ends stripped).  An absent dictionary key is the empty text.       *)
(***************************************************************************)
DateShape ==
    <<"d", "d", "d", "d", "-", "d", "d", "-", "d", "d", "-", "d", "d", "d", "d", "d", "d">>

\* t is \d{4}-\d{2}-\d{2}-\d{6}
IsDateToken(t) ==
    /\ Len(t) = Len(DateShape)
    /\ \A k \in DOMAIN t :
          IF DateShape[k] = "d" THEN t[k] \in Digits ELSE t[k] = "-"

\* the offsets (0-based) where (\d{4}-\d{2}-\d{2}-\d{6})_([A-Za-z0-9]+)$ matches in parent_dir
DateMatches(parent_dir) ==
    {p \in 0..Len(parent_dir) :
        /\ p + Len(DateShape) + 2 <= Len(parent_dir)
        /\ IsDateToken(Slice(parent_dir, p, p + Len(DateShape)))
        /\ parent_dir[p + Len(DateShape) + 1] = "_"
        /\ \A k \in (p + Len(DateShape) + 2)..Len(parent_dir) : IsAlnum(parent_dir[k])}

\* metadata['report_date'], the empty text when the key is not set
ReportDate(parent_dir) ==
    IF DateMatches(parent_dir) = {} THEN <<>>
    ELSE LET p == CHOOSE p \in DateMatches(parent_dir) :
                     \A q \in DateMatches(parent_dir) : p <= q
         IN  Slice(parent_dir, p, p + 10)

RECURSIVE Join(_, _)
\* sep.join(parts)
Join(parts, sep) ==
    IF parts = <<>> THEN <<>>
    ELSE IF Len(parts) = 1 THEN parts[1]
    ELSE parts[1] \o sep \o Join(Tail(parts), sep)

DigitChars ==
    <<"0", "1", "2", "3", "4", "5", "6", "7", "8", "9">>

RECURSIVE Decimal(_)
\* str(n) for n >= 0
Decimal(n) ==
    IF n < 10 THEN <<DigitChars[n + 1]>>
    ELSE Decimal(n \div 10) \o <<DigitChars[(n % 10) + 1]>>

NoErrorsPrefix ==
    <<"N", "o", " ", "e", "r", "r", "o", "r", " ", "p", "a", "t", "t", "e", "r", "n", "s",
      " ", "d", "e", "t", "e", "c", "t", "e", "d", " ", "i", "n", " ", "l", "o", "g", " ",
      "f", "i", "l", "e", ".", " ", "T", "o", "t", "a", "l", " ", "l", "i", "n", "e", "s",
      ":", " ">>

\* a variant that stores the joined context lines even when there are none
LogContentJoined(lines) ==
    Join(extract_error_context(lines, 3), <<"\n">>)

\* metadata['content']
LogContent(lines) ==
    LET error_context_lines == extract_error_context(lines, 3)
    IN  IF error_context_lines # <<>>
        THEN Join(error_context_lines, <<"\n">>)
        ELSE NoErrorsPrefix \o Decimal(Len(lines))

(***************************************************************************)
(* The header of a log file: header_pattern_4 and header_pattern_3 of      *)
(* extract_metadata_from_log, searched in the whole text of the file.      *)
(* Offsets are 0-based as in Python.                                       *)
(***************************************************************************)
LblWorker ==
    <<"W", "o", "r", "k", "e", "r", " ", "P", "r", "o", "c", "e", "s", "s", " ", "G",
      "r", "o", "u", "p", " ", "I", "D", ":">>

LblHost ==
    <<"H", "o", "s", "t", "n", "a", "m", "e", ":">>

LblExec ==
    <<"E", "x", "e", "c", "u", "t", "o", "r", " ", "K", "e", "r", "b", "e", "r", "o",
      "s", " ", "I", "D", ":">>

LblReq ==
    <<"R", "e", "q", "u", "e", "s", "t", "i", "n", "g", " ", "K", "e", "r", "b", "e",
      "r", "o", "s", " ", "I", "D", ":">>

\* the class \s of re (ASCII part); str.strip() takes the same characters off
IsSpace(c) ==
    c \in {" ", "\t", "\n", "\r"}

\* the offset at which a greedy \s* that starts at p ends
SkipSpace(text, p) ==
    CHOOSE q \in p..Len(text) :
        /\ q = Len(text) \/ ~IsSpace(text[q + 1])
        /\ \A j \in p..(q - 1) : IsSpace(text[j + 1])

\* the offset at which a greedy \d* that starts at p ends
DigitsEnd(text, p) ==
    CHOOSE q \in p..Len(text) :
        /\ q = Len(text) \/ text[q + 1] \notin Digits
        /\ \A j \in p..(q - 1) : text[j + 1] \in Digits

\* the first offset from p on that holds a character of stops, or the length
FirstOf(text, p, stops) ==
    CHOOSE q \in p..Len(text) :
        /\ q = Len(text) \/ text[q + 1] \in stops
        /\ \A j \in p..(q - 1) : text[j + 1] \notin stops

\* str.strip()
Strip(s) ==
    LET keep == {k \in DOMAIN s : ~IsSpace(s[k])}
    IN  IF keep = {} THEN <<>>
        ELSE SubSeq(s, CHOOSE a \in keep : \A k \in keep : a <= k,
                       CHOOSE b \in keep : \A k \in keep : k <= b)

\*  \s*([^,\n]+),  at offset q: the group ends before the first comma; what lies
\* between q and the comma is white space followed by at least one character,
\* none of them a newline.  value is the group after strip().
GroupToComma(text, q) ==
    LET c == FirstOf(text, q, {","})
        between == Slice(text, q, c)
        newlines == {k \in DOMAIN between : between[k] = "\n"}
        last_nl == IF newlines = {} THEN 0
                   ELSE CHOOSE k \in newlines : \A j \in newlines : j <= k
    IN  [ok |-> /\ c < Len(text)
                /\ Len(between) > last_nl
                /\ \A k \in 1..last_nl : IsSpace(between[k]),
         value |-> Strip(between),
         next |-> c + 1]

\*  \s*([^,\n]+)  at offset q with nothing after it: the white space is passed and
\* the group runs to the next comma, newline or the end; when nothing but a comma
\* or the end follows the white space, the group is one character of the white
\* space that is not a newline.  value is the group after strip().
GroupToEnd(text, q) ==
    LET w == SkipSpace(text, q)
    IN  IF w < Len(text) /\ text[w + 1] # ","
        THEN [ok |-> TRUE, value |-> Strip(Slice(text, w, FirstOf(text, w, {",", "\n"})))]
        ELSE [ok |-> \E k \in q..(w - 1) : text[k + 1] # "\n", value |-> <<>>]

\* no match at the offset
NoMatch ==
    [ok |-> FALSE]

\* the part the two patterns share, tried at offset p: the group id, the host name,
\* and the offset after the label of the executor
HeaderStart(text, p) ==
    IF ~OccursAt(text, LblWorker, p) THEN NoMatch
    ELSE LET b == SkipSpace(text, p + Len(LblWorker))
             d == DigitsEnd(text, b)
         IN  IF ~(d > b /\ d < Len(text) /\ text[d + 1] = ",") THEN NoMatch
             ELSE LET e == SkipSpace(text, d + 1)
                  IN  IF ~OccursAt(text, LblHost, e) THEN NoMatch
                      ELSE LET h == GroupToComma(text, e + Len(LblHost))
                           IN  IF ~h.ok THEN NoMatch
                               ELSE LET f == SkipSpace(text, h.next)
                                    IN  IF ~OccursAt(text, LblExec, f) THEN NoMatch
                                        ELSE [ok |-> TRUE,
                                              worker_process_group_id |-> Slice(text, b, d),
                                              hostname |-> h.value,
                                              at |-> f + Len(LblExec)]

\* header_pattern_4 tried at offset p
Match4(text, p) ==
    LET s == HeaderStart(text, p)
    IN  IF ~s.ok THEN NoMatch
        ELSE LET x == GroupToComma(text, s.at)
             IN  IF ~x.ok THEN NoMatch
                 ELSE LET g == SkipSpace(text, x.next)
                      IN  IF ~OccursAt(text, LblReq, g) THEN NoMatch
                          ELSE LET r == GroupToEnd(text, g + Len(LblReq))
                               IN  IF ~r.ok THEN NoMatch
                                   ELSE [ok |-> TRUE,
                                         fields |->
                                           [worker_process_group_id |-> s.worker_process_group_id,
                                            hostname |-> s.hostname,
                                            executor_kerberos_id |-> x.value,
                                            requesting_kerberos_id |-> r.value]]

\* header_pattern_3 tried at offset p
Match3(text, p) ==
    LET s == HeaderStart(text, p)
    IN  IF ~s.ok THEN NoMatch
        ELSE LET x == GroupToEnd(text, s.at)
             IN  IF ~x.ok THEN NoMatch
                 ELSE [ok |-> TRUE,
                       fields |-> [worker_process_group_id |-> s.worker_process_group_id,
                                   hostname |-> s.hostname,
                                   executor_kerberos_id |-> x.value]]

\* re.search(header_pattern_4, text): the offsets at which the pattern matches
Search4(text) ==
    {p \in 0..(Len(text) - 1) : Match4(text, p).ok}

\* re.search(header_pattern_3, text): the offsets at which the pattern matches
Search3(text) ==
    {p \in 0..(Len(text) - 1) : Match3(text, p).ok}

\* the leftmost of the offsets
Leftmost(offsets) ==
    CHOOSE p \in offsets : \A q \in offsets : p <= q

\* a variant that tries header_pattern_3 before header_pattern_4
HeaderPatternThreeFirst(full_content) ==
    IF Search3(full_content) # {} THEN "three"
    ELSE IF Search4(full_content) # {} THEN "four"
    ELSE "none"

\* the branch lines 427-438 take: header_pattern_4 first, header_pattern_3 only
\* when it gives no match
HeaderPattern(full_content) ==
    IF Search4(full_content) # {} THEN "four"
    ELSE IF Search3(full_content) # {} THEN "three"
    ELSE "none"

\* the keys the header adds to metadata, empty when neither pattern matches
HeaderFields(full_content) ==
    LET used == HeaderPattern(full_content)
    IN  IF used = "four"
        THEN Match4(full_content, Leftmost(Search4(full_content))).fields
        ELSE IF used = "three"
        THEN Match3(full_content, Leftmost(Search3(full_content))).fields
        ELSE << >>

\* ''.join(lines): every line of the file with its newline
FullContent(lines) ==
    IF lines = <<>> THEN <<>> ELSE Join(lines, <<"\n">>) \o <<"\n">>

\* the metadata extract_metadata_from_log returns for the file at log_file_path
\* holding lines (the caller has found the file to exist)
LogMetadata(log_file_path, lines) ==
    [file_path |-> log_file_path,
     step_name |-> SplitextRoot(log_file_path[Len(log_file_path)]),
     report_date |-> ReportDate(log_file_path[Len(log_file_path) - 1]),
     content |-> LogContent(lines),
     header |-> HeaderFields(FullContent(lines))]

(***************************************************************************)
(* The inputs: log lines, archive members, and the attachments the CRM     *)
(* query reports, each with the archive its download returns.              *)
(***************************************************************************)
\* step_names[0] of main
StepSSH ==
    <<"S", "S", "H", "_", "T", "O", "_", "A", "L", "L", "_", "H", "O", "S", "T", "S">>

DirDated ==
    <<"r", "e", "p", "_", "2", "0", "2", "4", "-", "0", "6", "-", "0", "1", "-",
      "1", "5", "3", "0", "0", "0", "_", "A", "B", "1", "2">>

DirPlain ==
    <<"l", "o", "g", "s">>

FileSsh1 ==
    StepSSH \o <<"_", "C", "S", "3", "1", "0", ".", "l", "o", "g">>

FileSsh2 ==
    Lower(StepSSH) \o <<"_", "n", "a", "1", ".", "L", "O", "G">>

FileSsh3 ==
    StepSSH \o <<"_", "C", "S", "3", "1", "1", ".", "l", "o", "g">>

FileSsh4 ==
    StepSSH \o <<"_", "C", "S", "3", "1", "2", ".", "l", "o", "g">>

FileSsh5 ==
    StepSSH \o <<"_", "C", "S", "3", "1", "3", ".", "l", "o", "g">>

FileLnk ==
    StepSSH \o <<"_", "l", "n", "k", ".", "l", "o", "g">>

FileDots ==
    StepSSH \o <<".", ".", "l", "o", "g">>

\* names that pass one half of the test of find_log_files only
FileNoSuffix ==
    StepSSH \o <<"_", "C", "S", "3", "1", "0", ".", "l", "o", "g", ".", "b", "a", "k">>

FileNoPrefix ==
    <<"X", "_">> \o StepSSH \o <<".", "l", "o", "g">>

FileOther ==
    <<"r", "e", "a", "d", "m", "e", ".", "t", "x", "t">>

Member(name, size, type, linkname, lines) ==
    [name |-> name, size |-> size, type |-> type, linkname |-> linkname, lines |-> lines]

MLog1 ==
    Member(<<DirDated, FileSsh1>>, 1, "file", <<>>, <<LineOk, LineErr>>)

MLog2 ==
    Member(<<DirPlain, FileSsh2>>, 1, "file", <<>>, <<LineOk>>)

MLog3 ==
    Member(<<DirDated, FileSsh3>>, 1, "file", <<>>, <<LineErr>>)

MOther ==
    Member(<<DirDated, FileOther>>, 1, "file", <<>>, <<LineOk>>)

MNoSuffix ==
    Member(<<DirDated, FileNoSuffix>>, 1, "file", <<>>, <<LineErr>>)

MNoPrefix ==
    Member(<<DirDated, FileNoPrefix>>, 1, "file", <<>>, <<LineErr>>)

MAbs ==
    Member(<<<<>>, FileSsh1>>, 1, "file", <<>>, <<LineErr>>)

MTrav ==
    Member(<<<<".", ".">>, FileSsh1>>, 1, "file", <<>>, <<LineErr>>)

MDots ==
    Member(<<DirDated, FileDots>>, 1, "file", <<>>, <<LineErr>>)

MBig ==
    Member(<<DirDated, FileSsh1>>, 3, "file", <<>>, <<LineErr>>)

\* an empty log file
MEmpty ==
    Member(<<DirDated, FileSsh4>>, 0, "file", <<>>, <<>>)

\* a log file whose only line reads as the summary of a file of one line does
MEcho ==
    Member(<<DirDated, FileSsh5>>, 1, "file", <<>>, <<NoErrorsPrefix \o <<"1">>>>)

\* a link to a file that is not there
MDangling ==
    Member(<<DirDated, FileLnk>>, 0, "symlink", <<<<"m", "i", "s", "s", "i", "n", "g">>>>,
           <<>>)

\* a link to a directory outside the temporary directory, and a file below the link
MLink ==
    Member(<<<<"l">>>>, 0, "symlink", OutsideDir, <<>>)

MThru ==
    Member(<<<<"l">>, FileSsh1>>, 1, "file", <<>>, <<LineErr>>)

\* one attachment as main collects it, with what its download returns:
\* the archive's members, its size in bytes, whether the bytes are a readable archive
Attachment(id, name, body, body_size, corrupt) ==
    [step |-> StepSSH, record_id |-> "w1", attachment_id |-> id, attachment_name |-> name,
     body |-> body, body_size |-> body_size, corrupt |-> corrupt]

AttCat ==
    {Attachment("a1", <<<<"r", ".", "z", "i", "p">>>>, <<MLog1, MLog2, MOther>>, 1, FALSE),
     Attachment("a2", <<<<"r", ".", "t", "a", "r", ".", "g", "z">>>>, <<MLog3>>, 1, FALSE),
     Attachment("a3", <<<<"n", "o", "t", "e", "s", ".", "t", "x", "t">>>>, <<MLog1>>, 1, FALSE),
     Attachment("a4", <<<<"e", ".", "t", "g", "z">>>>, <<MAbs, MBig, MDangling, MEmpty, MEcho>>, 1, FALSE),
     Attachment("a5", <<<<"B", ".", "T", "A", "R">>>>, <<MOther, MNoSuffix, MNoPrefix>>, 1, FALSE),
     Attachment("a6", <<<<"c", ".", "z", "i", "p", " ">>>>, <<MLog1>>, 1, FALSE),
     Attachment("a7", <<<<"d", ".", "z", "i", "p">>>>, <<MLog1>>, 3, FALSE),
     Attachment("a8", <<<<"f", ".", "z", "i", "p">>>>, <<MLog1>>, 1, TRUE)}

\* bounds of the model
MaxAtt ==
    2

MaxRuns ==
    2

MaxFaults ==
    1

RECURSIVE SeqsOver(_, _)
\* the sequences of n distinct elements of S
SeqsOver(S, n) ==
    IF n = 0 THEN {<<>>}
    ELSE UNION {{Append(q, x) : x \in S \ Range(q)} : q \in SeqsOver(S, n - 1)}

(***************************************************************************)
(* State.                                                                  *)
(***************************************************************************)
VARIABLES
    \* main and process_attachment
    attachments,      \* the list main collects from the CRM
    unique_enforced,  \* the store rejects a second row with the same attachment id
    tar_filter,       \* tarfile's default extraction filter in this interpreter
    run,              \* which invocation of main this is
    pc,               \* where the run is
    i,                \* the loop index of main, 1-based
    stats,            \* main's counters
    fs,               \* the files below (and written from) the temporary directory
    store,            \* the committed rows of the table, a bag of records
    main_failed,      \* main's connection is in a failed transaction
    file_path,        \* locals of process_attachment
    extract_path,
    log_files,        \* the log files not handled yet
    txn,              \* rows inserted in the open transaction, a bag
    txn_failed,       \* the open transaction is in a failed state
    successful_logs,
    failed_logs,
    ret,              \* what process_attachment returned
    faults,           \* how many environment faults have happened
    \* history, for the properties
    had_records,      \* the store held a row of this attachment at its lookup
    ops,              \* what has been done for the current attachment
    selected,         \* the log files find_log_files returned for it
    assembled,        \* the records assembled for it, a bag
    failures,         \* the failures met so far in this run
    \* the extractor alone
    ex_kind, ex_members, ex_pos, ex_fs, ex_skipped, ex_status,
    \* the error context extractor alone
    ctx_lines, ctx_radius, ctx_ranges, ctx_merged, ctx_out, ctx_status,
    \* the header parser alone
    hdr_text,         \* the text of the file
    hdr_stage,        \* how many parts of it have been written
    hdr_pattern,      \* the pattern the parser used: "four", "three" or "none"
    hdr_fields,       \* the keys the parser added to metadata
    hdr_status,
    \* download_attachment alone
    max_retries,      \* MAX_RETRIES as the environment set it
    dl_name,          \* attachment_name
    dl_size,          \* len(body_bytes) of the body the CRM holds
    dl_fs,            \* what lies below download_dir
    attempt,          \* the loop variable
    dl_events,        \* what the call has done so far, in order
    dl_result,        \* the path returned, <<>> for None
    dl_status

mainVars ==
    <<attachments, unique_enforced, run, pc, i, stats, fs, store, main_failed,
      file_path, extract_path, log_files, txn, txn_failed, successful_logs, failed_logs,
      ret, faults, had_records, ops, selected, assembled, failures>>

exVars ==
    <<ex_kind, ex_members, ex_pos, ex_fs, ex_skipped, ex_status>>

ctxVars ==
    <<ctx_lines, ctx_radius, ctx_ranges, ctx_merged, ctx_out, ctx_status>>

hdrVars ==
    <<hdr_text, hdr_stage, hdr_pattern, hdr_fields, hdr_status>>

dlVars ==
    <<max_retries, dl_name, dl_size, dl_fs, attempt, dl_events, dl_result, dl_status>>

vars ==
    <<mainVars, tar_filter, exVars, ctxVars, hdrVars, dlVars>>

\* the machines that are not running
MainIdle ==
    /\ attachments = <<>> /\ unique_enforced = FALSE /\ run = 0 /\ pc = "idle" /\ i = 0
    /\ stats = <<>> /\ fs = {} /\ store = EmptyBag /\ main_failed = FALSE
    /\ file_path = <<>> /\ extract_path = <<>> /\ log_files = {} /\ txn = EmptyBag
    /\ txn_failed = FALSE /\ successful_logs = 0 /\ failed_logs = 0 /\ ret = <<>>
    /\ faults = 0 /\ had_records = FALSE /\ ops = {} /\ selected = {}
    /\ assembled = EmptyBag /\ failures = 0

ExIdle ==
    /\ ex_kind = "none" /\ ex_members = <<>> /\ ex_pos = 0 /\ ex_fs = {}
    /\ ex_skipped = {} /\ ex_status = "idle"

CtxIdle ==
    /\ ctx_lines = <<>> /\ ctx_radius = 0 /\ ctx_ranges = <<>> /\ ctx_merged = <<>>
    /\ ctx_out = <<>> /\ ctx_status = "idle"

HdrIdle ==
    /\ hdr_text = <<>> /\ hdr_stage = 0 /\ hdr_pattern = "none" /\ hdr_fields = << >>
    /\ hdr_status = "idle"

DlIdle ==
    /\ max_retries = 0 /\ dl_name = <<>> /\ dl_size = 0 /\ dl_fs = {} /\ attempt = 0
    /\ dl_events = <<>> /\ dl_result = <<>> /\ dl_status = "idle"

(***************************************************************************)
(* The store.  A row is a record; the table is a bag of rows.              *)
(***************************************************************************)
\* SELECT COUNT(*) ... WHERE attachment_id = id
CountFor(rows, id) ==
    LET mine == {r \in DOMAIN rows : r.attachment_id = id}
    IN  BagCardinality([r \in mine |-> rows[r]])

\* check_attachment_processed: raised says the query raised
check_attachment_processed(raised, rows, id) ==
    IF raised THEN FALSE ELSE CountFor(rows, id) > 0

\* cursor.execute(insert_sql, values) raises: the transaction has failed already,
\* the store refuses the row, or the environment fails
InsertRaises(err, rows, pending, failed, uniq, rec) ==
    \/ failed
    \/ err
    \/ uniq /\ CountFor(rows (+) pending, rec.attachment_id) > 0

\* a variant of the commit that keeps the rows inserted before the failure
commit_keeps_partial(rows, pending, failed) ==
    rows (+) pending

\* conn.commit(): a failed transaction is rolled back
commit_result(rows, pending, failed) ==
    IF failed THEN rows ELSE rows (+) pending

\* metadata.update(merged_metadata); src is the attachment whose archive held the file
MergedMetadata(att, metadata, src) ==
    [attachment_id |-> att.attachment_id, record_id |-> att.record_id,
     file_path |-> metadata.file_path, step_name |-> metadata.step_name,
     report_date |-> metadata.report_date, content |-> metadata.content,
     header |-> metadata.header, src |-> src]

(***************************************************************************)
(* main and process_attachment, one action per step.                       *)
(***************************************************************************)
Cur ==
    attachments[i]

ZeroStats ==
    [processed |-> 0, successful_logs |-> 0, failed_logs |-> 0, skipped |-> 0]

Init ==
    /\ attachments \in UNION {SeqsOver(AttCat, n) : n \in 1..MaxAtt}
    /\ unique_enforced \in BOOLEAN
    /\ tar_filter \in TarFilters
    /\ run = 1 /\ pc = "check" /\ i = 1 /\ stats = ZeroStats
    /\ fs = {} /\ store = EmptyBag /\ main_failed = FALSE
    /\ file_path = <<>> /\ extract_path = <<>> /\ log_files = {} /\ txn = EmptyBag
    /\ txn_failed = FALSE /\ successful_logs = 0 /\ failed_logs = 0 /\ ret = <<>>
    /\ faults = 0 /\ had_records = FALSE /\ ops = {} /\ selected = {}
    /\ assembled = EmptyBag /\ failures = 0
    /\ ExIdle /\ CtxIdle /\ HdrIdle /\ DlIdle

\* where main goes after the lookup: skip the attachment, or process it
AfterLookup(found) ==
    IF found THEN "skip" ELSE "download"

\* main, lines 631-638: the lookup at the head of the loop
CheckProcessed ==
    /\ pc = "check" /\ i <= Len(attachments)
    /\ \E err \in BOOLEAN :
          /\ err => faults < MaxFaults /\ ~main_failed
          /\ LET raised == main_failed \/ err
                 found == check_attachment_processed(raised, store, Cur.attachment_id)
             IN  /\ main_failed' = raised
                 /\ faults' = IF err THEN faults + 1 ELSE faults
                 /\ had_records' = (CountFor(store, Cur.attachment_id) > 0)
                 /\ ops' = {"lookup"}
                 /\ IF AfterLookup(found) = "skip"
                    THEN /\ stats' = [stats EXCEPT !.skipped = @ + 1]
                         /\ i' = i + 1
                         /\ pc' = "check"
                    ELSE /\ pc' = "download"
                         /\ UNCHANGED <<stats, i>>
    /\ selected' = {} /\ assembled' = EmptyBag
    /\ UNCHANGED <<attachments, unique_enforced, tar_filter, run, fs, store, file_path,
                   extract_path, log_files, txn, txn_failed, successful_logs,
                   failed_logs, ret, failures, exVars, ctxVars, hdrVars, dlVars>>

\* download_attachment: err says every attempt to fetch the body failed
Download ==
    /\ pc = "download"
    /\ \E err \in BOOLEAN :
          /\ err => faults < MaxFaults
          /\ faults' = IF err THEN faults + 1 ELSE faults
          /\ LET safe_filename == sanitize_filename(Cur.attachment_name)
                 path == Append(TmpDir, safe_filename)
             IN  IF err \/ Cur.body_size > MAX_ATTACHMENT_SIZE \/ IsDirectory(fs, path)
                 THEN /\ ret' = <<0, 1>> /\ pc' = "return"
                      /\ failures' = failures + 1
                      /\ UNCHANGED <<fs, file_path>>
                 ELSE /\ fs' = PutEntry(fs, [path |-> path, type |-> "file",
                                             target |-> <<>>, name |-> <<safe_filename>>,
                                             origin |-> Cur.attachment_id, lines |-> <<>>])
                      /\ file_path' = path /\ pc' = "extract"
                      /\ UNCHANGED <<ret, failures>>
    /\ ops' = ops \cup {"download"}
    /\ UNCHANGED <<attachments, unique_enforced, tar_filter, run, i, stats, store,
                   main_failed, extract_path, log_files, txn, txn_failed,
                   successful_logs, failed_logs, had_records, selected, assembled,
                   exVars, ctxVars, hdrVars, dlVars>>

\* extract_archive, called from process_attachment line 507
Extract ==
    /\ pc = "extract"
    /\ LET r == extract_archive(tar_filter, fs, file_path, TmpDir, Cur.body,
                                Cur.corrupt, Cur.attachment_id)
       IN  /\ fs' = r.fs
           /\ ops' = IF r.fs # fs THEN ops \cup {"extract"} ELSE ops
           /\ IF r.path = <<>>
              THEN /\ ret' = <<0, 1>> /\ pc' = "return"
                   /\ failures' = failures + 1
                   /\ UNCHANGED extract_path
              ELSE /\ extract_path' = r.path /\ pc' = "find"
                   /\ UNCHANGED <<ret, failures>>
    /\ UNCHANGED <<attachments, unique_enforced, tar_filter, run, i, stats, store,
                   main_failed, file_path, log_files, txn, txn_failed, successful_logs,
                   failed_logs, faults, had_records, selected, assembled,
                   exVars, ctxVars, hdrVars, dlVars>>

\* find_log_files, called from process_attachment line 512
FindLogs ==
    /\ pc = "find"
    /\ LET found == find_log_files(fs, extract_path, Cur.step)
       IN  /\ selected' = found
           /\ IF found = {}
              THEN /\ ret' = <<0, 1>> /\ pc' = "return"
                   /\ failures' = failures + 1
                   /\ UNCHANGED log_files
              ELSE /\ log_files' = found /\ pc' = "connect"
                   /\ UNCHANGED <<ret, failures>>
    /\ UNCHANGED <<attachments, unique_enforced, tar_filter, run, i, stats, fs, store,
                   main_failed, file_path, extract_path, txn, txn_failed,
                   successful_logs, failed_logs, faults, had_records, ops, assembled,
                   exVars, ctxVars, hdrVars, dlVars>>

\* psycopg.connect of process_attachment, line 521: err says it raised
Connect ==
    /\ pc = "connect"
    /\ \E err \in BOOLEAN :
          /\ err => faults < MaxFaults
          /\ faults' = IF err THEN faults + 1 ELSE faults
          /\ IF err
             THEN /\ ret' = <<0, 1>> /\ pc' = "return"
                  /\ failures' = failures + 1
                  /\ log_files' = {}
             ELSE /\ pc' = "log"
                  /\ UNCHANGED <<ret, failures, log_files>>
    /\ txn' = EmptyBag /\ txn_failed' = FALSE
    /\ successful_logs' = 0 /\ failed_logs' = 0
    /\ UNCHANGED <<attachments, unique_enforced, tar_filter, run, i, stats, fs, store,
                   main_failed, file_path, extract_path, had_records, ops, selected,
                   assembled, exVars, ctxVars, hdrVars, dlVars>>

\* whether the loop of process_attachment counts the file as failed
CountsAsFailed(metadata_none, insert_ok) ==
    metadata_none \/ ~insert_ok

\* lines 524-543 for log file f: the record the loop assembles, none when
\* extract_metadata_from_log returns None
Assembled(f) ==
    IF ~Exists(fs, f) THEN {[attachment_id |-> Cur.attachment_id]}
    ELSE LET e == CHOOSE x \in fs : x.path = Resolve(fs, f)
         IN  {MergedMetadata(Cur, LogMetadata(f, e.lines), e.origin)}

\* one turn of the loop of process_attachment, lines 523-549, for log file f;
\* os.walk gives the files in no particular order.  err says the INSERT raised
\* for a reason of the environment's.
ProcessLog ==
    /\ pc = "log" /\ log_files # {}
    /\ \E f \in log_files, err \in BOOLEAN :
        \E rec \in Assembled(f) :
          LET present == Exists(fs, f)
              refused == InsertRaises(FALSE, store, txn, txn_failed, unique_enforced, rec)
              raises == InsertRaises(err, store, txn, txn_failed, unique_enforced, rec)
          IN  /\ err => faults < MaxFaults /\ present /\ ~refused
              /\ faults' = IF err THEN faults + 1 ELSE faults
              /\ log_files' = log_files \ {f}
              /\ IF ~present
                 THEN /\ UNCHANGED <<txn, txn_failed, assembled, ops>>
                      /\ failures' = failures + 1
                 ELSE /\ assembled' = assembled (+) SetToBag({rec})
                      /\ ops' = ops \cup {"insert"}
                      /\ txn' = IF raises THEN txn ELSE txn (+) SetToBag({rec})
                      /\ txn_failed' = (txn_failed \/ raises)
                      /\ failures' = IF raises \/ rec.report_date = <<>>
                                     THEN failures + 1 ELSE failures
              /\ IF CountsAsFailed(~present, present /\ ~raises)
                 THEN /\ failed_logs' = failed_logs + 1
                      /\ UNCHANGED successful_logs
                 ELSE /\ successful_logs' = successful_logs + 1
                      /\ UNCHANGED failed_logs
    /\ UNCHANGED <<attachments, unique_enforced, tar_filter, run, pc, i, stats, fs, store,
                   main_failed, file_path, extract_path, ret, had_records, selected,
                   exVars, ctxVars, hdrVars, dlVars>>

\* conn.commit() after the loop and the return, lines 551-553
Commit ==
    /\ pc = "log" /\ log_files = {}
    /\ store' = commit_result(store, txn, txn_failed)
    /\ ret' = <<successful_logs, failed_logs>>
    /\ pc' = "return"
    /\ txn' = EmptyBag /\ txn_failed' = FALSE
    /\ UNCHANGED <<attachments, unique_enforced, tar_filter, run, i, stats, fs,
                   main_failed, file_path, extract_path, log_files, successful_logs,
                   failed_logs, faults, had_records, ops, selected, assembled, failures,
                   exVars, ctxVars, hdrVars, dlVars>>

\* main, lines 641-644: the counters after process_attachment has returned
Return ==
    /\ pc = "return"
    /\ stats' = [stats EXCEPT !.processed = @ + 1,
                              !.successful_logs = @ + ret[1],
                              !.failed_logs = @ + ret[2]]
    /\ i' = i + 1 /\ pc' = "check"
    /\ ret' = <<>> /\ file_path' = <<>> /\ extract_path' = <<>>
    /\ successful_logs' = 0 /\ failed_logs' = 0 /\ log_files' = {}
    /\ UNCHANGED <<attachments, unique_enforced, tar_filter, run, fs, store, main_failed,
                   txn, txn_failed, faults, had_records, ops, selected, assembled,
                   failures, exVars, ctxVars, hdrVars, dlVars>>

\* temp_dir's cleanup: shutil.rmtree(temp_dir, ignore_errors=True)
RemoveTree(files, dir) ==
    {e \in files : ~Within(e.path, dir)}

\* main, lines 645-654: the loop has ended, the temporary directory goes, the summary
Summary ==
    /\ pc = "check" /\ i > Len(attachments)
    /\ fs' = RemoveTree(fs, TmpDir)
    /\ pc' = "done"
    /\ UNCHANGED <<attachments, unique_enforced, tar_filter, run, i, stats, store,
                   main_failed, file_path, extract_path, log_files, txn, txn_failed,
                   successful_logs, failed_logs, ret, faults, had_records, ops, selected,
                   assembled, failures, exVars, ctxVars, hdrVars, dlVars>>

\* the script is started again: the CRM still reports the same attachments
Rerun ==
    /\ pc = "done" /\ run < MaxRuns
    /\ run' = run + 1 /\ pc' = "check" /\ i' = 1 /\ stats' = ZeroStats
    /\ main_failed' = FALSE /\ failures' = 0
    /\ had_records' = FALSE /\ ops' = {} /\ selected' = {} /\ assembled' = EmptyBag
    /\ UNCHANGED <<attachments, unique_enforced, tar_filter, fs, store, file_path,
                   extract_path, log_files, txn, txn_failed, successful_logs,
                   failed_logs, ret, faults, exVars, ctxVars, hdrVars, dlVars>>

Next ==
    \/ CheckProcessed
    \/ Download
    \/ Extract
    \/ FindLogs
    \/ Connect
    \/ ProcessLog
    \/ Commit
    \/ Return
    \/ Summary
    \/ Rerun

Spec ==
    Init /\ [][Next]_vars

(***************************************************************************)
(* The extractors alone: _safe_extract_tar / _safe_extract_zip on one      *)
(* archive, one member per step, into an empty destination directory.      *)
(***************************************************************************)
MemberCat ==
    {MLog1, MAbs, MTrav, MDots, MBig, MLink, MThru}

MaxMembers ==
    3

\* extract_path: the directory the members are to go to
ExDest ==
    Append(TmpDir, <<"x">>)

RECURSIVE SeqsUpTo(_, _)
\* the sequences over S of length at most n
SeqsUpTo(S, n) ==
    IF n = 0 THEN {<<>>}
    ELSE LET shorter == SeqsUpTo(S, n - 1)
         IN  shorter \cup {Append(q, x) : q \in {t \in shorter : Len(t) = n - 1}, x \in S}

InitExtract ==
    /\ MainIdle /\ CtxIdle /\ HdrIdle /\ DlIdle
    /\ tar_filter \in TarFilters
    /\ ex_kind \in {"tar", "zip"}
    /\ ex_members \in SeqsUpTo(MemberCat, MaxMembers)
    /\ ex_pos = 1 /\ ex_fs = {} /\ ex_skipped = {} /\ ex_status = "running"

\* one turn of the loop over the members
ExtractMember ==
    /\ ex_status = "running" /\ ex_pos <= Len(ex_members)
    /\ LET r == safe_extract_member(ex_kind, tar_filter, ex_fs, ExDest,
                                    ex_members[ex_pos], "x")
       IN  /\ ex_fs' = r.fs
           /\ ex_skipped' = IF r.outcome = "skipped" THEN ex_skipped \cup {ex_pos}
                            ELSE ex_skipped
           /\ ex_status' = IF r.outcome = "error" THEN "failed" ELSE "running"
    /\ ex_pos' = ex_pos + 1
    /\ UNCHANGED <<mainVars, hdrVars, dlVars, tar_filter, ex_kind, ex_members, ctxVars>>

\* the loop has seen every member
ExtractDone ==
    /\ ex_status = "running" /\ ex_pos > Len(ex_members)
    /\ ex_status' = "done"
    /\ UNCHANGED <<mainVars, hdrVars, dlVars, tar_filter, ex_kind, ex_members, ex_pos, ex_fs, ex_skipped,
                   ctxVars>>

NextExtract ==
    \/ ExtractMember
    \/ ExtractDone

SpecExtract ==
    InitExtract /\ [][NextExtract]_vars

(***************************************************************************)
(* The error context extractor alone: a file is read line by line, then    *)
(* extract_error_context runs on it.                                       *)
(***************************************************************************)
MaxLines ==
    13

MaxRadius ==
    3

\* a file of 101 lines with error lines at indices 0 and 100 only
LongFile ==
    [k \in 1..101 |-> IF k \in {1, 101} THEN LineErr ELSE LineOk]

\* how a file may begin: with nothing, with a line that reads as the separator does,
\* or as the whole of LongFile
SeedFiles ==
    {<<>>, <<Separator>>, LongFile}

InitCtx ==
    /\ MainIdle /\ ExIdle /\ HdrIdle /\ DlIdle
    /\ tar_filter = "fully_trusted"
    /\ ctx_lines \in SeedFiles /\ ctx_radius = 0 /\ ctx_ranges = <<>> /\ ctx_merged = <<>>
    /\ ctx_out = <<>> /\ ctx_status = "reading"

\* readlines: one more line of the file
ReadLine ==
    /\ ctx_status = "reading" /\ Len(ctx_lines) < MaxLines
    /\ \E l \in LineCat : ctx_lines' = Append(ctx_lines, l)
    /\ UNCHANGED <<mainVars, hdrVars, dlVars, tar_filter, exVars, ctx_radius, ctx_ranges, ctx_merged,
                   ctx_out, ctx_status>>

\* extract_error_context(lines, context_lines)
ExtractContext ==
    /\ ctx_status = "reading"
    /\ \E r \in 0..MaxRadius :
          /\ ctx_radius' = r
          /\ ctx_ranges' = ContextRanges(ctx_lines, r)
          /\ ctx_merged' = MergeRanges(ContextRanges(ctx_lines, r))
          /\ ctx_out' = extract_error_context(ctx_lines, r)
    /\ ctx_status' = "done"
    /\ UNCHANGED <<mainVars, hdrVars, dlVars, tar_filter, exVars, ctx_lines>>

NextCtx ==
    \/ ReadLine
    \/ ExtractContext

SpecCtx ==
    InitCtx /\ [][NextCtx]_vars

(***************************************************************************)
(* The header parser alone: the text of a file is written part by part,    *)
(* then lines 409-438 of extract_metadata_from_log run on it.              *)
(***************************************************************************)
\* the parts a text is made of, in order: what precedes the header, the group id,
\* the host name, the executor, and what follows
HeaderParts ==
    << {<<>>, <<"x", "\n">>},
       {LblWorker \o ws \o id \o <<",">> :
            ws \in {<<>>, <<" ">>}, id \in {<<"7">>, <<"1", "2">>, <<>>}},
       {ws \o LblHost \o v \o <<",">> :
            ws \in {<<" ">>, <<"\n">>},
            v \in {<<" ", "h">>, <<" ">>, <<"h", " ", "x">>, <<"h", "\n">>}},
       {<<" ">> \o LblExec \o v :
            v \in {<<" ", "e">>, <<>>, <<" ">>, <<"\n", "e">>}},
       {<<>>, <<"\n">>, <<",">>}
         \cup {<<",", " ">> \o LblReq \o v \o t :
                  v \in {<<" ", "q">>, <<>>, <<" ">>, <<"\n">>},
                  t \in {<<>>, <<",", "z">>}} >>

InitHeader ==
    /\ MainIdle /\ ExIdle /\ CtxIdle /\ DlIdle
    /\ tar_filter = "fully_trusted"
    /\ hdr_text = <<>> /\ hdr_stage = 0 /\ hdr_pattern = "none" /\ hdr_fields = << >>
    /\ hdr_status = "writing"

\* the next part of the text
WritePart ==
    /\ hdr_status = "writing" /\ hdr_stage < Len(HeaderParts)
    /\ \E part \in HeaderParts[hdr_stage + 1] : hdr_text' = hdr_text \o part
    /\ hdr_stage' = hdr_stage + 1
    /\ UNCHANGED <<mainVars, tar_filter, exVars, ctxVars, dlVars, hdr_pattern, hdr_fields,
                   hdr_status>>

\* lines 409-438 on the text as it stands
ParseHeader ==
    /\ hdr_status = "writing"
    /\ hdr_pattern' = HeaderPattern(hdr_text)
    /\ hdr_fields' = HeaderFields(hdr_text)
    /\ hdr_status' = "parsed"
    /\ UNCHANGED <<mainVars, tar_filter, exVars, ctxVars, dlVars, hdr_text, hdr_stage>>

NextHeader ==
    \/ WritePart
    \/ ParseHeader

SpecHeader ==
    InitHeader /\ [][NextHeader]_vars

(***************************************************************************)
(* download_attachment alone, one action per step of its loop.  The call   *)
(* finds download_dir empty, or holding the tree an earlier attachment of  *)
(* the run was expanded into.                                              *)
(***************************************************************************)
MaxRetriesEnv ==
    3

\* the names of the attachment
DlNames ==
    {<<<<"r">>>>, <<<<"r", ".", "z", "i", "p">>>>}

\* download_dir as an earlier attachment named r.zip left it
DlLeftOver ==
    {[path |-> <<<<>>, <<"t">>, <<"r">>, FileSsh1>>, type |-> "file", target |-> <<>>,
      name |-> <<FileSsh1>>, origin |-> "a1", lines |-> <<>>]}

\* os.path.join(download_dir, safe_filename)
DlPath ==
    Append(TmpDir, sanitize_filename(dl_name))

InitDownload ==
    /\ MainIdle /\ ExIdle /\ CtxIdle /\ HdrIdle
    /\ tar_filter = "fully_trusted"
    /\ max_retries \in 0..MaxRetriesEnv
    /\ dl_name \in DlNames
    /\ dl_size \in {1, MAX_ATTACHMENT_SIZE + 1}
    /\ dl_fs \in {{}, DlLeftOver}
    /\ attempt = 0 /\ dl_events = <<>> /\ dl_result = <<>> /\ dl_status = "running"

\* the except clause, lines 192-195: sleep unless this was the last attempt
Handler(events) ==
    /\ dl_events' = events
    /\ IF attempt < max_retries - 1
       THEN dl_status' = "sleeping" /\ UNCHANGED attempt
       ELSE attempt' = attempt + 1 /\ UNCHANGED dl_status
    /\ UNCHANGED <<dl_fs, dl_result>>

\* _download_attachment_body raises
FetchRaises ==
    /\ dl_status = "running" /\ attempt < max_retries
    /\ Handler(Append(dl_events, "failed"))
    /\ UNCHANGED <<mainVars, tar_filter, exVars, ctxVars, hdrVars, max_retries, dl_name,
                   dl_size>>

\* _download_attachment_body returns the bytes: lines 180-190
FetchReturns ==
    /\ dl_status = "running" /\ attempt < max_retries
    /\ LET got == Append(dl_events, "bytes")
       IN  IF dl_size > MAX_ATTACHMENT_SIZE
           THEN /\ dl_events' = got /\ dl_result' = <<>> /\ dl_status' = "returned"
                /\ UNCHANGED <<dl_fs, attempt>>
           ELSE IF IsDirectory(dl_fs, DlPath)
           THEN Handler(Append(got, "write_failed"))
           ELSE /\ dl_fs' = PutEntry(dl_fs, [path |-> DlPath, type |-> "file",
                                             target |-> <<>>,
                                             name |-> <<sanitize_filename(dl_name)>>,
                                             origin |-> "a2", lines |-> <<>>])
                /\ dl_events' = Append(got, "written")
                /\ dl_result' = DlPath /\ dl_status' = "returned"
                /\ UNCHANGED attempt
    /\ UNCHANGED <<mainVars, tar_filter, exVars, ctxVars, hdrVars, max_retries, dl_name,
                   dl_size>>

\* time.sleep(RETRY_DELAY), then the next turn of the loop
Sleep ==
    /\ dl_status = "sleeping"
    /\ dl_events' = Append(dl_events, "sleep")
    /\ attempt' = attempt + 1 /\ dl_status' = "running"
    /\ UNCHANGED <<mainVars, tar_filter, exVars, ctxVars, hdrVars, max_retries, dl_name,
                   dl_size, dl_fs, dl_result>>

\* the loop has ended: lines 197-198
GiveUp ==
    /\ dl_status = "running" /\ attempt >= max_retries
    /\ dl_result' = <<>> /\ dl_status' = "returned"
    /\ UNCHANGED <<mainVars, tar_filter, exVars, ctxVars, hdrVars, max_retries, dl_name,
                   dl_size, dl_fs, attempt, dl_events>>

NextDownload ==
    \/ FetchRaises
    \/ FetchReturns
    \/ Sleep
    \/ GiveUp

SpecDownload ==
    InitDownload /\ [][NextDownload]_vars

(***************************************************************************)
(* Properties.                                                             *)
(***************************************************************************)
\* the steps of process_attachment
Processing ==
    {"download", "extract", "find", "connect", "log", "return"}

\* C1: an attachment whose id has a row in the store when its turn comes is looked
\* up before anything else is done for it, and is then skipped: it never reaches
\* download, extraction or insert.
C1_ProcessedIsSkipped ==
    /\ pc \in Processing => ~had_records
    /\ ops \cap {"download", "extract", "insert"} # {} => "lookup" \in ops

\* C2: the store changes only at the commit that follows the last log file of an
\* attachment; that commit adds every record assembled for the attachment when no
\* insert failed and nothing when one failed; no row committed before is lost.
C2_CommitAfterAllLogs ==
    [][/\ store' # store => pc = "log" /\ log_files = {} /\ pc' = "return"
       /\ pc = "log" /\ pc' = "return" =>
             store' = IF txn_failed THEN store ELSE store (+) assembled
       /\ \A r \in DOMAIN store : r \in DOMAIN store' /\ store'[r] >= store[r]]_vars

\* an insert of a batch of several records has failed, after an earlier
\* attachment's rows were committed, and the batch has been aborted
C2_Witness ==
    /\ pc = "return" /\ ret # <<>> /\ ret[2] >= 1
    /\ BagCardinality(assembled) >= 2
    /\ CountFor(store, Cur.attachment_id) = 0
    /\ store # EmptyBag

\* C3: with the attachment id unique in the store, an attachment whose archive
\* gives k >= 1 selected log files, all assembled, has exactly k rows in the store
\* once its processing is complete (no environment fault has occurred).
C3_OneRecordPerLogFile ==
    (/\ pc = "return" /\ unique_enforced /\ faults = 0
     /\ selected # {} /\ BagCardinality(assembled) = Cardinality(selected))
    => CountFor(store, Cur.attachment_id) = Cardinality(selected)

\* the name of the directory that holds the file
ParentDir(path) ==
    path[Len(path) - 1]

\* C4: no row is stored for a log file whose parent directory name does not match
\* the date pattern.
C4_NoRecordWithoutDate ==
    \A r \in DOMAIN store : DateMatches(ParentDir(r.file_path)) # {}

\* C5: the run reaches its end having checked every attachment, and every failure
\* met on the way (an underivable date among them) is in the failed count.
C5_FailuresCounted ==
    pc = "done" =>
        /\ stats.processed + stats.skipped = Len(attachments)
        /\ stats.failed_logs >= failures

\* C6: when the processing of an attachment begins, the temporary directory holds
\* no file of an earlier attachment.
C6_WorkDirPerAttachment ==
    pc = "download" => {e \in fs : Within(e.path, TmpDir)} = {}

\* the attachment's file name ends in .tar.gz, .tgz, .zip or .tar, whatever the case
NameSupported(attachment_name) ==
    LET low == Lower(attachment_name[Len(attachment_name)])
    IN  \E suf \in {SufTarGz, SufTgz, SufZip, SufTar} : EndsWith(low, suf)

\* C9: for an attachment whose file name ends in none of the supported suffixes,
\* process_attachment returns (0, 1), no member is extracted and no insert is made.
C9_UnsupportedSkipped ==
    (pc = "return" /\ ~NameSupported(Cur.attachment_name)) =>
        /\ ret = <<0, 1>>
        /\ "extract" \notin ops /\ "insert" \notin ops
        /\ \A e \in fs : e.origin = Cur.attachment_id => e.path = Append(TmpDir, e.name[1])
        /\ extract_path = <<>> /\ selected = {} /\ assembled = EmptyBag

\* extract_archive has been called for an attachment with an unsupported name
C9_Witness ==
    /\ pc = "return" /\ ~NameSupported(Cur.attachment_name)
    /\ file_path # <<>> /\ Cur.body # <<>>

\* C7: no entry the extractor has written lies outside the destination directory.
C7_PathContainment ==
    \A e \in ex_fs : Within(e.path, ExDest)

\* C8: a member the loop has passed is skipped exactly when its path is absolute,
\* or has a ".." segment, or its size exceeds MAX_ATTACHMENT_SIZE.
C8_SkippedExactly ==
    \A k \in 1..(ex_pos - 1) :
        k \in ex_skipped <=>
            \/ IsAbs(ex_members[k].name)
            \/ HasTraversalSegment(ex_members[k].name)
            \/ ex_members[k].size > MAX_ATTACHMENT_SIZE

\* the line indices within radius of one of the error indices errs, of n lines
CoveredBy(errs, radius, n) ==
    {j \in 0..(n - 1) : \E e \in errs : e - radius <= j /\ j <= e + radius}

\* C10: the ranges are the clamped windows in ascending order; the merged ranges
\* cover exactly the lines within the radius of an error line, and two ranges are
\* kept apart exactly when the later one starts after the earlier one's end, so
\* that ranges that overlap or touch are one; error lines at 5 and 9 with radius 3
\* give the single range [2, 13).
C10_MergeWhenStartLeqEnd ==
    ctx_status = "done" =>
        LET errs == ErrorIndices(ctx_lines)
            covered == CoveredBy(errs, ctx_radius, Len(ctx_lines))
            inside == UNION {ctx_merged[k][1]..(ctx_merged[k][2] - 1) : k \in DOMAIN ctx_merged}
        IN  /\ \A k \in DOMAIN ctx_ranges :
                  /\ ctx_ranges[k][2] <= Len(ctx_lines) /\ ctx_ranges[k][1] >= 0
                  /\ k > 1 => ctx_ranges[k - 1][1] <= ctx_ranges[k][1]
            /\ \A k \in DOMAIN ctx_merged :
                  /\ ctx_merged[k][1] < ctx_merged[k][2]
                  /\ k > 1 => ctx_merged[k - 1][2] < ctx_merged[k][1]
            /\ inside = covered
            /\ \A k \in DOMAIN ctx_ranges :
                  \E m \in DOMAIN ctx_merged :
                      /\ ctx_merged[m][1] <= ctx_ranges[k][1]
                      /\ ctx_ranges[k][2] <= ctx_merged[m][2]
            /\ (errs = {5, 9} /\ ctx_radius = 3 /\ Len(ctx_lines) >= 13)
                  => ctx_merged = << <<2, 13>> >>

\* error lines at 5 and 9, radius 3: the windows [2, 9) and [6, 13) are one range
C10_Witness ==
    /\ ctx_status = "done" /\ ctx_radius = 3
    /\ ErrorIndices(ctx_lines) = {5, 9}
    /\ ctx_ranges = << <<2, 9>>, <<6, 13>> >>
    /\ ctx_merged = << <<2, 13>> >>

\* the number of lines the merged ranges before the k-th put into the output,
\* separators included
RECURSIVE OutOffset(_, _)
OutOffset(merged, k) ==
    IF k = 1 THEN 0
    ELSE OutOffset(merged, k - 1) + (merged[k - 1][2] - merged[k - 1][1]) + 1

\* the positions of the output that hold the separator text
SeparatorPositions ==
    {p \in DOMAIN ctx_out : ctx_out[p] = Separator}

\* the number of separator tokens in the output is the number of merged ranges
\* minus one
C11_SeparatorCount ==
    (ctx_status = "done" /\ ctx_merged # <<>>) =>
        Cardinality(SeparatorPositions) = Len(ctx_merged) - 1

\* C11: the output is the lines of the merged ranges in order, with one separator
\* put before every range but the first and nowhere else, so that the separators
\* put in are one fewer than the ranges; separator text is found elsewhere in the
\* output only where a line of the file itself reads as the separator does.
C11_SeparatorsBetweenWindows ==
    (ctx_status = "done" /\ ctx_merged # <<>>) =>
        LET n == Len(ctx_merged)
            last == ctx_merged[n]
            put == {OutOffset(ctx_merged, k) : k \in 2..n}
        IN  /\ Len(ctx_out) = OutOffset(ctx_merged, n) + (last[2] - last[1])
            /\ \A p \in put : ctx_out[p] = Separator
            /\ Cardinality(put) = n - 1
            /\ \A k \in 1..n :
                  \A t \in 1..(ctx_merged[k][2] - ctx_merged[k][1]) :
                      ctx_out[OutOffset(ctx_merged, k) + t] = ctx_lines[ctx_merged[k][1] + t]
            /\ Separator \notin Range(ctx_lines) => SeparatorPositions = put

\* error lines at 0 and 100, radius 3: two ranges and one separator between them
C11_Witness ==
    /\ ctx_status = "done" /\ ctx_radius = 3 /\ ctx_lines = LongFile
    /\ ctx_merged = << <<0, 4>>, <<97, 101>> >>
    /\ Len(ctx_out) = 9 /\ SeparatorPositions = {5}

RECURSIVE RangeIndices(_)
\* the line indices of the merged ranges, in the order the last loop takes them
RangeIndices(merged) ==
    IF merged = <<>> THEN <<>>
    ELSE [t \in 1..(Head(merged)[2] - Head(merged)[1]) |-> Head(merged)[1] + t - 1]
             \o RangeIndices(Tail(merged))

\* C12: the lines put into the output are those of the indices within the radius
\* of an error line, each once and in ascending order of the index, and no other
\* line of the file is put into it.
C12_CoveredLinesOnce ==
    ctx_status = "done" =>
        LET covered == CoveredBy(ErrorIndices(ctx_lines), ctx_radius, Len(ctx_lines))
            sorted == SortedSeq(covered)
            taken == RangeIndices(ctx_merged)
            before(j) == Cardinality({k \in DOMAIN ctx_merged : ctx_merged[k][2] <= sorted[j]})
        IN  /\ taken = sorted
            /\ \A j \in 1..(Len(taken) - 1) : taken[j] < taken[j + 1]
            /\ Len(ctx_out) = Len(sorted) + Max(0, Len(ctx_merged) - 1)
            /\ \A j \in DOMAIN sorted : ctx_out[j + before(j)] = ctx_lines[sorted[j] + 1]

\* error lines at 2 and 4 of a file of 9 lines, radius 2: the lines 0..6 are in
\* the output once each, the lines 7 and 8 are not
C12_Witness ==
    /\ ctx_status = "done" /\ ctx_radius = 2 /\ Len(ctx_lines) = 9
    /\ ErrorIndices(ctx_lines) = {2, 4}
    /\ Len(ctx_out) = 7 /\ ctx_merged = << <<0, 7>> >>

\* the lines of the file a record was assembled from
LinesOf(rec) ==
    (CHOOSE e \in fs : e.path = Resolve(fs, rec.file_path)).lines

\* the summary extract_metadata_from_log stores for a file without error lines
Placeholder(lines) ==
    NoErrorsPrefix \o Decimal(Len(lines))

\* the content of a record is the summary exactly when no line of its file
\* matches an error pattern
C13_PlaceholderIffNoMatch ==
    pc \in {"log", "return"} =>
        \A rec \in DOMAIN assembled :
            (rec.content = Placeholder(LinesOf(rec))) <=> (ErrorIndices(LinesOf(rec)) = {})

\* C13: a file without error lines, the empty file included, gives a record whose
\* content is the summary with the file's line count, never empty, and the record
\* is counted as successful unless an insert raised; a file with an error line
\* gives the summary as content only when it is the one line that reads as the
\* summary of a file of one line.
C13_PlaceholderContent ==
    pc \in {"log", "return"} =>
        /\ \A rec \in DOMAIN assembled :
              LET lines == LinesOf(rec)
              IN  /\ ErrorIndices(lines) = {} =>
                        rec.content = Placeholder(lines) /\ rec.content # <<>>
                  /\ (ErrorIndices(lines) # {} /\ lines # <<Placeholder(<<1>>)>>) =>
                        /\ rec.content # Placeholder(lines)
                        /\ \A n \in 0..Len(lines) : rec.content # NoErrorsPrefix \o Decimal(n)
        /\ (pc = "log" /\ ~txn_failed) => successful_logs = BagCardinality(assembled)

\* records of an empty file and of a file without error lines have been assembled
\* and counted as successful
C13_Witness ==
    /\ pc = "log" /\ ~txn_failed /\ successful_logs >= 1
    /\ \E rec \in DOMAIN assembled :
          LinesOf(rec) = <<>> /\ rec.content = NoErrorsPrefix \o <<"0">>

\* the keys of the header
HeaderKeys ==
    {"worker_process_group_id", "hostname", "executor_kerberos_id", "requesting_kerberos_id"}

StepLogsBelow(directory, step_name) ==
    {e \in fs :
        /\ Len(e.path) > Len(directory)
        /\ SubSeq(e.path, 1, Len(directory)) = directory
        /\ LET name == Lower(e.path[Len(e.path)])
               pre == Lower(step_name)
           IN  /\ Len(name) >= Len(pre) /\ SubSeq(name, 1, Len(pre)) = pre
               /\ Len(name) >= 4 /\ SubSeq(name, Len(name) - 3, Len(name)) = SufLog}

\* C15: the files find_log_files returned are the files below the directory whose
\* lowercased name begins with the lowercased step name and ends with ".log", all
\* of them and no others, and the list holds each of them once.
C15_FindLogFiles ==
    pc \in {"connect", "log"} \/ (pc = "return" /\ extract_path # <<>>) =>
        LET found == FindLogList(Walk(fs, extract_path), Cur.step, <<>>)
        IN  /\ selected = {e.path : e \in StepLogsBelow(extract_path, Cur.step)}
            /\ Range(found) = selected
            /\ Len(found) = Cardinality(selected)

\* of the files of an archive, those whose names differ from the step name in case
\* only have been found with the others, and those that pass half the test have not
C15_Witness ==
    /\ pc = "connect" /\ Cardinality(selected) >= 2
    /\ \E f \in selected : f[Len(f)] = FileSsh2
    /\ \E e \in fs : Within(e.path, extract_path) /\ e.path \notin selected

\* the positions of dl_events at which the body was asked for
FetchAttempts ==
    {k \in 1..Len(dl_events) : dl_events[k] \in {"failed", "bytes"}}

\* C16: download_attachment asks for the body at most MAX_RETRIES times; the first
\* attempt that yields bytes ends the call, with the path of the file written, or,
\* when the bytes exceed MAX_ATTACHMENT_SIZE, with None and no file written; it
\* sleeps only after a failed attempt that another attempt follows; when every
\* attempt has failed it returns None.
C16_DownloadRetries ==
    /\ Cardinality(FetchAttempts) <= max_retries
    /\ \A k \in 1..Len(dl_events) :
          dl_events[k] = "bytes" =>
             /\ dl_status = "returned"
             /\ \A j \in FetchAttempts : j <= k
             /\ IF dl_size > MAX_ATTACHMENT_SIZE
                THEN /\ dl_result = <<>>
                     /\ \A j \in 1..Len(dl_events) : dl_events[j] # "written"
                ELSE /\ dl_result = DlPath
                     /\ \E e \in dl_fs : e.path = DlPath /\ e.origin = "a2"
    /\ \A k \in 1..Len(dl_events) :
          dl_events[k] = "sleep" =>
             /\ k > 1 /\ dl_events[k - 1] \in {"failed", "write_failed"}
             /\ dl_status = "returned" => \E j \in FetchAttempts : j > k
    /\ dl_status = "returned" /\ (\A k \in FetchAttempts : dl_events[k] = "failed") =>
          dl_result = <<>> /\ Cardinality(FetchAttempts) = max_retries

\* C17: when process_attachment returns after its commit, the count of successes it
\* returns is the number of rows of that attachment the store holds.
C17_SuccessesAreStored ==
    [][pc = "log" /\ pc' = "return" => ret'[1] = CountFor(store', Cur.attachment_id)]_vars

\* C18: every row the store holds under an attachment id was assembled from a log
\* file that the archive of that attachment held.
C18_RecordsFromOwnArchive ==
    \A r \in DOMAIN store : r.src = r.attachment_id

====
